---- MODULE Spec2Model ----
(***************************************************************************)
(* A model of @protorians/parameters: the reactive key-value store         *)
(* DynamicParameter (source/supports/dynamic.ts) and the value set         *)
(* StaticParameter (source/supports/static.ts).                            *)
(*                                                                         *)
(* JavaScript values are modelled by tokens.  A key is a string, a number  *)
(* or a symbol (keyof T); values are primitives; a callback is a function  *)
(* reference.  A Map is a sequence of entries in insertion order, a Set a  *)
(* sequence without duplicates, a plain object a sequence of properties in *)
(* creation order.  In the specifications Spec and SpecCopies listeners    *)
(* only record that they were invoked and with what; in SpecNested they    *)
(* may call back into the store, and operations run step by step on a call *)
(* stack.                                                                  *)
(***************************************************************************)
EXTENDS Integers, Sequences, FiniteSets, TLC

VARIABLES
    initial,    \* this.initial: the object given to the constructor
    stack,      \* this.stack: Map<key, {value, defaultValue, callback}>
    signal,     \* this.signal: Map<key, Set<callback>>
    calls,      \* the listener invocations of the last operation, in order
    last,       \* the last operation called on the store and its arguments
    result,     \* what the last operation returned, when not the store itself
    everSet,    \* history: the keys passed to set() by a caller
    listened,   \* history: the <<key, callback>> pairs handed to listen()
    removed,    \* history: the keys deleted by remove() or clear()
    shadow,     \* history: the store that received every call but remove/clear
    before,     \* history: the stack and the signal the last operation found
    raised,     \* whether the last operation raised an exception
    ops,        \* the number of operations called so far
    sets,       \* the Set objects of the value sets, by reference
    statics,    \* the StaticParameter instances: [initial, stack]
    staticLast, \* the last operation called on a value set
    staticPrev, \* history: the operation called before the last one
    staticBefore, \* history: the Set objects the last operation found
    staticOps,  \* the number of operations called on value sets so far
    maps,       \* the Map objects of a store and of its copies, by reference
    stores,     \* the DynamicParameter instances: [initial, stack, signal]
    built,      \* history: the stack of each instance as its constructor left it
    copyLast,   \* the last operation called on a store or on one of its copies
    copyBefore, \* history: the Map objects the last operation found
    copyOps,    \* the number of operations called on stores and copies so far
    nestInitial, \* a store whose listeners call back: this.initial
    nestStack,  \* its this.stack
    nestSignal, \* its this.signal
    nestFrames, \* its call stack: the initialize and dispatch loops under way
    nestCalls,  \* history: the listener invocations of the operation under way
    nestLast,   \* the last operation a caller started on it
    nestOps     \* the number of operations callers started on it so far

storeVars == <<initial, stack, signal, calls, last, result, everSet, listened,
               removed, shadow, before, raised, ops>>

staticVars == <<sets, statics, staticLast, staticPrev, staticBefore, staticOps>>

copyVars == <<maps, stores, built, copyLast, copyBefore, copyOps>>

nestVars == <<nestInitial, nestStack, nestSignal, nestFrames, nestCalls,
              nestLast, nestOps>>

vars == <<storeVars, staticVars, copyVars, nestVars>>

\* A call made on the value set at index on of statics.
StaticCall(op, on, arg) == [op |-> op, on |-> on, arg |-> arg]

\* No value set has been built.
NoStatics ==
    /\ sets = <<>>
    /\ statics = <<>>
    /\ staticLast = StaticCall("none", 0, "none")
    /\ staticPrev = StaticCall("none", 0, "none")
    /\ staticBefore = <<>>
    /\ staticOps = 0

\* A call made on the store at index on of stores.
CopyCall(op, on, key, callback) ==
    [op |-> op, on |-> on, key |-> key, callback |-> callback]

\* No store has been copied.
NoCopies ==
    /\ maps = <<>>
    /\ stores = <<>>
    /\ built = <<>>
    /\ copyLast = CopyCall("none", 0, "none", "none")
    /\ copyBefore = <<>>
    /\ copyOps = 0

\* A call a caller or a listener makes on the store whose listeners call back.
NestCall(op, key, value, callback) ==
    [op |-> op, key |-> key, value |-> value, callback |-> callback]

\* No store with listeners that call back has been built.
NoNest ==
    /\ nestInitial = <<>>
    /\ nestStack = <<>>
    /\ nestSignal = <<>>
    /\ nestFrames = <<>>
    /\ nestCalls = <<>>
    /\ nestLast = NestCall("none", "none", "none", "none")
    /\ nestOps = 0

---------------------------------------------------------------------------
(* Bounds of the exploration.                                              *)

MaxOps == 2

---------------------------------------------------------------------------
(* JavaScript values.                                                      *)

Undefined == "undefined"

\* The keys: a plain string, the string "1", the number 1 and a symbol.
StrA == "str:theme"

Str1 == "str:1"

Num1 == "num:1"

Sym == "sym:s"

Keys == {StrA, Str1, Num1, Sym}

\* Property keys of a plain object are strings or symbols.
PropKeys == {StrA, Str1, Sym}

\* Values: undefined and 0 are falsy, the two strings are truthy.
Values == {Undefined, "0", "light", "dark"}

Falsy == {Undefined, "0"}

Callbacks == {"cb1", "cb2"}

\* ToBoolean.
Truthy(v) == v \notin Falsy

\* a || b
Or(a, b) == IF Truthy(a) THEN a ELSE b

\* a == b on keys: a number and a string are equal when the string's
\* numeric value is the number; a symbol equals only itself.
LooseEq(a, b) == a = b \/ {a, b} = {Str1, Num1}

\* ToPropertyKey: a number used as a property name becomes its string.
ToPropertyKey(k) == IF k = Num1 THEN Str1 ELSE k

---------------------------------------------------------------------------
(* Map and Set, as sequences in insertion order.                           *)

MapKeys(m) == {m[i].key : i \in 1..Len(m)}

MapHas(m, k) == k \in MapKeys(m)

MapGet(m, k) == m[CHOOSE i \in 1..Len(m) : m[i].key = k]

\* Map.prototype.set: an existing key keeps its position.
MapSet(m, k, e) ==
    IF MapHas(m, k)
    THEN [i \in 1..Len(m) |-> IF m[i].key = k THEN e ELSE m[i]]
    ELSE Append(m, e)

MapDelete(m, k) == SelectSeq(m, LAMBDA e : e.key # k)

SeqHas(s, x) == \E i \in 1..Len(s) : s[i] = x

\* Set.prototype.add
SetAdd(s, x) == IF SeqHas(s, x) THEN s ELSE Append(s, x)

---------------------------------------------------------------------------
(* Plain objects, as sequences of properties [key, data] in creation order.*)

\* A parameter record {value, defaultValue, callback}.
Param(v, d, c) ==
    [kind |-> "param", value |-> v, defaultValue |-> d, callback |-> c]

\* A primitive standing where a parameter record is expected.
Bare(v) == [kind |-> "bare", raw |-> v]

\* data.f for f in value, defaultValue, callback: a primitive has none of
\* these properties.
Field(data, f) == IF data.kind = "param" THEN data[f] ELSE Undefined

\* Reading a property of undefined raises a TypeError.
FieldThrows(data) == data.kind = "bare" /\ data.raw = Undefined

\* obj[k] = data
ObjAssign(obj, k, data) ==
    MapSet(obj, ToPropertyKey(k), [key |-> ToPropertyKey(k), data |-> data])

\* Object.entries(obj): the string-keyed properties, integer-like keys
\* first, then the others in creation order; symbol keys are left out.
ObjectEntries(obj) ==
    SelectSeq(obj, LAMBDA p : p.key = Str1)
        \o SelectSeq(obj, LAMBDA p : p.key \notin {Str1, Sym})

---------------------------------------------------------------------------
(* DynamicParameter.  A store is [stack, signal, calls, threw]: the two    *)
(* maps, the listener invocations made so far by the running operation and *)
(* whether it has raised.                                                  *)

EmptyStore == [stack |-> <<>>, signal |-> <<>>, calls |-> <<>>, threw |-> FALSE]

\* has() deciding by == instead of the Map's own key identity.
HasLoose(st, key) == \E k \in MapKeys(st.stack) : LooseEq(k, key)

Has(st, key) == MapHas(st.stack, key)

\* get() deciding by presence (value ?? defaultValue) instead of truthiness.
GetNullish(st, key) ==
    IF MapHas(st.stack, key)
    THEN LET data == MapGet(st.stack, key)
         IN  IF data.value # Undefined THEN data.value ELSE data.defaultValue
    ELSE Undefined

\* data ? (data.value || data.defaultValue || undefined) : undefined
Get(st, key) ==
    IF MapHas(st.stack, key)
    THEN LET data == MapGet(st.stack, key)
         IN  Or(Or(data.value, data.defaultValue), Undefined)
    ELSE Undefined

\* listen() keeping its listeners in an array: no deduplication.
ListenAppends(st, key, callback) ==
    LET set == IF MapHas(st.signal, key) THEN MapGet(st.signal, key).set
               ELSE <<>>
    IN  [st EXCEPT !.signal =
            MapSet(st.signal, key, [key |-> key, set |-> Append(set, callback)])]

\* const set = this.signal.get(key) || new Set(); set.add(callback);
\* this.signal.set(key, set)
Listen(st, key, callback) ==
    LET set == IF MapHas(st.signal, key) THEN MapGet(st.signal, key).set
               ELSE <<>>
    IN  [st EXCEPT !.signal =
            MapSet(st.signal, key, [key |-> key, set |-> SetAdd(set, callback)])]

\* The invocations dispatch(key) makes from the i-th entry of signal on:
\* the listeners of every entry whose key == key, each with get(key).
RECURSIVE DispatchFrom(_, _, _)
DispatchFrom(st, key, i) ==
    IF i > Len(st.signal) THEN <<>>
    ELSE (IF LooseEq(key, st.signal[i].key)
          THEN [j \in 1..Len(st.signal[i].set) |->
                   [cb |-> st.signal[i].set[j], arg |-> Get(st, key)]]
          ELSE <<>>)
         \o DispatchFrom(st, key, i + 1)

Dispatch(st, key) == [st EXCEPT !.calls = st.calls \o DispatchFrom(st, key, 1)]

\* set() keeping the default the key already has when none is given.
SetKeepsDefault(st, key, value, defaultValue, callback) ==
    LET kept == IF MapHas(st.stack, key)
                THEN MapGet(st.stack, key).defaultValue ELSE Undefined
        written == [st EXCEPT !.stack =
                       MapSet(st.stack, key,
                              [key |-> key, value |-> value,
                               defaultValue |-> Or(Or(defaultValue, kept), value),
                               callback |-> callback])]
        heard == IF Truthy(callback) THEN Listen(written, key, callback)
                 ELSE written
    IN  Dispatch(heard, key)

\* set() dispatching before it registers the callback.
SetDispatchesFirst(st, key, value, defaultValue, callback) ==
    LET written == [st EXCEPT !.stack =
                       MapSet(st.stack, key,
                              [key |-> key, value |-> value,
                               defaultValue |-> Or(defaultValue, value),
                               callback |-> callback])]
    IN  IF Truthy(callback) THEN Listen(Dispatch(written, key), key, callback)
        ELSE Dispatch(written, key)

\* set() storing the default as given, without falling back to the value.
SetNoFallback(st, key, value, defaultValue, callback) ==
    LET written == [st EXCEPT !.stack =
                       MapSet(st.stack, key,
                              [key |-> key, value |-> value,
                               defaultValue |-> defaultValue,
                               callback |-> callback])]
        heard == IF Truthy(callback) THEN Listen(written, key, callback)
                 ELSE written
    IN  Dispatch(heard, key)

Set(st, key, value, defaultValue, callback) ==
    LET written == [st EXCEPT !.stack =
                       MapSet(st.stack, key,
                              [key |-> key, value |-> value,
                               defaultValue |-> Or(defaultValue, value),
                               callback |-> callback])]
        heard == IF Truthy(callback) THEN Listen(written, key, callback)
                 ELSE written
    IN  Dispatch(heard, key)

\* update() without its has() guard.
UpdateUnguarded(st, key, value) == Set(st, key, value, Undefined, Undefined)

Update(st, key, value) ==
    IF Has(st, key) THEN Set(st, key, value, Undefined, Undefined) ELSE st

\* remove() that also drops the key's listeners.
RemoveForgets(st, key) ==
    [st EXCEPT !.stack = MapDelete(st.stack, key),
               !.signal = MapDelete(st.signal, key)]

\* remove() deleting every key == key.
RemoveLoose(st, key) ==
    [st EXCEPT !.stack = SelectSeq(st.stack, LAMBDA e : ~LooseEq(e.key, key))]

Remove(st, key) == [st EXCEPT !.stack = MapDelete(st.stack, key)]

\* clear() that leaves the stack as it is.
ClearKeeps(st) == st

Clear(st) == [st EXCEPT !.stack = <<>>]

\* for (const [key, data] of Object.entries(this.initial))
\*     this.set(key, data.value, data.defaultValue, data.callback)
RECURSIVE InitializeFrom(_, _, _)
InitializeFrom(st, es, i) ==
    IF i > Len(es) THEN st
    ELSE IF FieldThrows(es[i].data) THEN [st EXCEPT !.threw = TRUE]
    ELSE InitializeFrom(Set(st, es[i].key, Field(es[i].data, "value"),
                            Field(es[i].data, "defaultValue"),
                            Field(es[i].data, "callback")),
                        es, i + 1)

Initialize(st, init) == InitializeFrom(st, ObjectEntries(init), 1)

\* reset() that replays the initial definition without clearing first.
ResetKeeps(st, init) == Initialize(st, init)

Reset(st, init) == Initialize(Clear(st), init)

\* The instance new DynamicParameter(init) leaves behind.
Construct(init) ==
    LET st == Initialize(EmptyStore, init)
    IN  [kind |-> "instance", initial |-> init, stack |-> st.stack,
         signal |-> st.signal, calls |-> st.calls, threw |-> st.threw]

\* get entries(): accumulate[key] = value.value for each entry of the stack
RECURSIVE EntriesFrom(_, _)
EntriesFrom(stk, n) ==
    IF n = 0 THEN <<>>
    ELSE ObjAssign(EntriesFrom(stk, n - 1), stk[n].key, Bare(stk[n].value))

Entries(st) == EntriesFrom(st.stack, Len(st.stack))

\* new this.constructor({...this.entries})
Clone(st, init) == Construct(Entries(st))

\* new this.constructor({...this.initial})
CloneOriginal(st, init) == Construct(init)

---------------------------------------------------------------------------
(* The state machine: one store, built from one of the initial definitions,*)
(* and the calls a caller makes on it.                                     *)

\* Parameter records of an initial definition: a value alone, a falsy value
\* with an explicit default, and records that declare a callback.
Plain == Param("light", Undefined, Undefined)

Masked == Param("0", "dark", Undefined)

Heard == Param("light", "dark", "cb1")

HeardToo == Param("0", Undefined, "cb2")

Prop(k, p) == [key |-> k, data |-> p]

\* The initial definitions the store is built from, as written.
InitialDefs ==
    {<<>>,
     <<Prop(StrA, Masked)>>,
     <<Prop(StrA, Heard)>>,
     <<Prop(StrA, Masked), Prop(Str1, Plain)>>,
     <<Prop(StrA, Heard), Prop(Str1, HeardToo)>>,
     <<Prop(Str1, Heard), Prop(StrA, Masked)>>,
     <<Prop(Sym, Plain), Prop(StrA, Masked)>>,
     <<Prop(Sym, Heard)>>}

\* The arguments callers pass.
CallKeys == {StrA, Str1, Num1}

SetValues == {"0", "light"}

SetDefaults == {Undefined, "0", "dark"}

SetCallbacks == {Undefined, "cb2"}

UpdateValues == {Undefined, "dark"}

\* The store as an operation finds it.
Cur == [stack |-> stack, signal |-> signal, calls |-> <<>>, threw |-> FALSE]

Shadow == [shadow EXCEPT !.calls = <<>>]

This == [kind |-> "this"]

Call(op, key, value, defaultValue, callback) ==
    [op |-> op, key |-> key, value |-> value, defaultValue |-> defaultValue,
     callback |-> callback]

\* The listen() calls initialize() makes through set().
Declared(init) ==
    {<<p.key, p.data.callback>> :
        p \in {q \in {ObjectEntries(init)[i] : i \in 1..Len(ObjectEntries(init))} :
                  Truthy(q.data.callback)}}

\* The store takes the state st and the call returns res; sh is the same
\* call made on the shadow.
Becomes(st, sh, res) ==
    /\ ops < MaxOps
    /\ ops' = ops + 1
    /\ stack' = st.stack
    /\ signal' = st.signal
    /\ calls' = st.calls
    /\ shadow' = sh
    /\ before' = [stack |-> stack, signal |-> signal]
    /\ result' = res
    /\ raised' = IF res.kind = "instance" THEN res.threw ELSE st.threw
    /\ UNCHANGED <<initial, staticVars, copyVars, nestVars>>

Init ==
    /\ initial \in InitialDefs
    /\ LET made == Construct(initial)
       IN  /\ stack = made.stack
           /\ signal = made.signal
           /\ calls = made.calls
           /\ shadow = [stack |-> made.stack, signal |-> made.signal,
                        calls |-> made.calls, threw |-> made.threw]
    /\ last = Call("construct", Undefined, Undefined, Undefined, Undefined)
    /\ result = This
    /\ everSet = {}
    /\ listened = Declared(initial)
    /\ removed = {}
    /\ before = [stack |-> <<>>, signal |-> <<>>]
    /\ raised = FALSE
    /\ ops = 0
    /\ NoStatics
    /\ NoCopies
    /\ NoNest

DoSet ==
    \E key \in CallKeys, value \in SetValues, defaultValue \in SetDefaults,
       callback \in SetCallbacks :
        /\ Becomes(Set(Cur, key, value, defaultValue, callback),
                   Set(Shadow, key, value, defaultValue, callback), This)
        /\ last' = Call("set", key, value, defaultValue, callback)
        /\ everSet' = everSet \cup {key}
        /\ listened' = IF Truthy(callback) THEN listened \cup {<<key, callback>>}
                       ELSE listened
        /\ UNCHANGED removed

DoUpdate ==
    \E key \in CallKeys, value \in UpdateValues :
        /\ Becomes(Update(Cur, key, value), Update(Shadow, key, value), This)
        /\ last' = Call("update", key, value, Undefined, Undefined)
        /\ UNCHANGED <<everSet, listened, removed>>

DoRemove ==
    \E key \in CallKeys :
        /\ Becomes(Remove(Cur, key), Shadow, This)
        /\ last' = Call("remove", key, Undefined, Undefined, Undefined)
        /\ removed' = removed \cup (MapKeys(stack) \cap {key})
        /\ UNCHANGED <<everSet, listened>>

DoClear ==
    /\ Becomes(Clear(Cur), Shadow, This)
    /\ last' = Call("clear", Undefined, Undefined, Undefined, Undefined)
    /\ removed' = removed \cup MapKeys(stack)
    /\ UNCHANGED <<everSet, listened>>

DoReset ==
    /\ Becomes(Reset(Cur, initial), Reset(Shadow, initial), This)
    /\ last' = Call("reset", Undefined, Undefined, Undefined, Undefined)
    /\ UNCHANGED <<everSet, listened, removed>>

DoListen ==
    \E key \in CallKeys, callback \in Callbacks :
        /\ Becomes(Listen(Cur, key, callback), Listen(Shadow, key, callback),
                   This)
        /\ last' = Call("listen", key, Undefined, Undefined, callback)
        /\ listened' = listened \cup {<<key, callback>>}
        /\ UNCHANGED <<everSet, removed>>

DoDispatch ==
    \E key \in CallKeys :
        /\ Becomes(Dispatch(Cur, key), Dispatch(Shadow, key), This)
        /\ last' = Call("dispatch", key, Undefined, Undefined, Undefined)
        /\ UNCHANGED <<everSet, listened, removed>>

DoGet ==
    \E key \in CallKeys :
        /\ Becomes(Cur, Shadow, [kind |-> "value", value |-> Get(Cur, key)])
        /\ last' = Call("get", key, Undefined, Undefined, Undefined)
        /\ UNCHANGED <<everSet, listened, removed>>

DoClone ==
    /\ Becomes(Cur, Shadow, Clone(Cur, initial))
    /\ last' = Call("clone", Undefined, Undefined, Undefined, Undefined)
    /\ UNCHANGED <<everSet, listened, removed>>

DoCloneOriginal ==
    /\ Becomes(Cur, Shadow, CloneOriginal(Cur, initial))
    /\ last' = Call("cloneOriginal", Undefined, Undefined, Undefined, Undefined)
    /\ UNCHANGED <<everSet, listened, removed>>

Next ==
    \/ DoSet
    \/ DoUpdate
    \/ DoRemove
    \/ DoClear
    \/ DoReset
    \/ DoListen
    \/ DoDispatch
    \/ DoGet
    \/ DoClone
    \/ DoCloneOriginal

Spec == Init /\ [][Next]_vars

---------------------------------------------------------------------------
(* Properties.                                                             *)

\* The keys the initial definition gives the store: the ones
\* Object.entries lists.
InitialKeys == MapKeys(ObjectEntries(initial))

\* The value a parameter record of the initial definition resolves to.
Resolved(p) == Or(Or(p.value, p.defaultValue), Undefined)

\* How often callback cb is invoked in the invocation sequence cs.
Times(cs, cb) == Cardinality({i \in 1..Len(cs) : cs[i].cb = cb})

\* C1: right after set(k, v, d), get(k) is v when v is truthy, else d when d
\* is truthy, else undefined; so set(k, v) with a truthy v reads back v and
\* set(k, f) with a falsy f and no default reads back undefined.
C1_ReadResolution ==
    last.op = "set" =>
        /\ Get(Cur, last.key) =
               (IF Truthy(last.value) THEN last.value
                ELSE IF Truthy(last.defaultValue) THEN last.defaultValue
                ELSE Undefined)
        /\ (Truthy(last.value) /\ last.defaultValue = Undefined
               => Get(Cur, last.key) = last.value)
        /\ (~Truthy(last.value) /\ last.defaultValue = Undefined
               => Get(Cur, last.key) = Undefined)

\* A falsy value written without a default reads back as undefined.
C1_Witness ==
    /\ last.op = "set"
    /\ last.value = "0"
    /\ last.defaultValue = Undefined
    /\ MapGet(stack, last.key).value = "0"
    /\ Get(Cur, last.key) = Undefined


\* C2: a key that is not in the stack has has(k) false and get(k) undefined,
\* in particular a key just removed and every key after clear(); and a key
\* in the stack is a key of the initial definition or was passed to set().
C2_AbsentKeys ==
    /\ \A k \in Keys :
          k \notin MapKeys(stack) => ~Has(Cur, k) /\ Get(Cur, k) = Undefined
    /\ (last.op = "remove" => ~Has(Cur, last.key))
    /\ (last.op = "clear" => \A k \in Keys : ~Has(Cur, k))
    /\ \A k \in Keys : Has(Cur, k) => k \in InitialKeys \cup everSet

\* The string "1" is in the stack and the number 1, just removed, is not.
C2_Witness ==
    /\ last.op = "remove"
    /\ last.key = Num1
    /\ Num1 \in removed
    /\ Has(Cur, Str1)
    /\ ~Has(Cur, Num1)
    /\ Get(Cur, Num1) = Undefined

\* C3: a default is not remembered: when k holds a record with a truthy
\* default, set(k, f) or update(k, f) without a default stores f as the
\* defaultValue, and with a falsy f get(k) is then undefined.
C3_DefaultOverwritten ==
    (/\ last.op \in {"set", "update"}
     /\ last.defaultValue = Undefined
     /\ MapHas(before.stack, last.key)
     /\ Truthy(MapGet(before.stack, last.key).defaultValue))
        => /\ MapGet(stack, last.key).defaultValue = last.value
           /\ (~Truthy(last.value) => Get(Cur, last.key) = Undefined)

\* The key held a falsy value masked by the explicit default "dark"; a falsy
\* value written over it reads back as undefined.
C3_Witness ==
    /\ last.op \in {"set", "update"}
    /\ last.defaultValue = Undefined
    /\ ~Truthy(last.value)
    /\ MapHas(before.stack, last.key)
    /\ MapGet(before.stack, last.key).value = "0"
    /\ MapGet(before.stack, last.key).defaultValue = "dark"
    /\ Get(Cur, last.key) = Undefined

\* C4: update(k, v) on a key that is not in the stack changes neither the
\* stack nor the listener ledger, invokes no listener and raises nothing.
C4_UpdateMissingKey ==
    (last.op = "update" /\ ~MapHas(before.stack, last.key))
        => /\ stack = before.stack
           /\ signal = before.signal
           /\ ~Has(Cur, last.key)
           /\ calls = <<>>
           /\ ~raised

\* update() of a removed key that still has listeners.
C4_Witness ==
    /\ last.op = "update"
    /\ ~MapHas(before.stack, last.key)
    /\ last.key \in removed
    /\ MapHas(signal, last.key)
    /\ Len(MapGet(signal, last.key).set) > 0
    /\ calls = <<>>
    /\ stack = before.stack


\* C5: a callback registered for k is invoked exactly once by every
\* set(k, v), with the value get(k) then returns, and a set() of a key it is
\* not registered for does not invoke it.
C5_OncePerSet ==
    last.op = "set" =>
        \A cb \in Callbacks :
            IF <<last.key, cb>> \in listened
            THEN /\ Times(calls, cb) = 1
                 /\ \A i \in 1..Len(calls) :
                       calls[i].cb = cb => calls[i].arg = Get(Cur, last.key)
            ELSE Times(calls, cb) = 0

\* What holds of set(k, v) instead: every ledger entry whose key == k has all
\* its listeners invoked, each with get(k); with no other ledger key == k,
\* that is each listener of k exactly once and nobody else.
C5_PerLooselyEqualEntry ==
    last.op = "set" =>
        /\ \A i \in 1..Len(calls) : calls[i].arg = Get(Cur, last.key)
        /\ \A cb \in Callbacks :
              Times(calls, cb) =
                  Cardinality({k \in Keys : LooseEq(k, last.key)
                                               /\ <<k, cb>> \in listened})

\* C6: the listener ledger never loses a member; remove, clear, update,
\* dispatch, get and reset leave it exactly as it was.
C6_LedgerMonotonic ==
    /\ \A i \in 1..Len(before.signal) :
          /\ MapHas(signal, before.signal[i].key)
          /\ \A j \in 1..Len(before.signal[i].set) :
                SeqHas(MapGet(signal, before.signal[i].key).set,
                       before.signal[i].set[j])
    /\ (last.op \in {"remove", "clear", "update", "dispatch", "get", "reset"}
           => signal = before.signal)

\* A second operation, reset(), on a store whose initial definition declares
\* callbacks: the ledger is still the one construction left.
C6_Witness ==
    /\ last.op = "reset"
    /\ ops = 2
    /\ Declared(initial) # {}
    /\ listened = Declared(initial)
    /\ calls # <<>>
    /\ signal = Construct(initial).signal

\* C7: listeners survive the removal of their key: set(k, v) makes the
\* invocations it would have made had no remove() or clear() ever been
\* called, and every listener registered for k is among them.
C7_ListenersSurviveRemoval ==
    last.op = "set" =>
        /\ calls = shadow.calls
        /\ \A cb \in Callbacks :
              <<last.key, cb>> \in listened =>
                  \E i \in 1..Len(calls) :
                      calls[i] = [cb |-> cb, arg |-> Get(Cur, last.key)]

\* set() of a key that was removed and whose listener is invoked.
C7_Witness ==
    /\ last.op = "set"
    /\ last.callback = Undefined
    /\ last.key \in removed
    /\ ~MapHas(before.stack, last.key)
    /\ \E cb \in Callbacks :
          /\ <<last.key, cb>> \in listened
          /\ Times(calls, cb) = 1

C9_CloneCopiesCurrent ==
    last.op = "clone" =>
        /\ ~raised
        /\ \A k \in MapKeys(stack) :
              Has(result, k) /\ Get(result, k) = Get(Cur, k)

\* C10: clone() builds the new instance from the source's initial
\* definition: the clone's initial is the source's and its stack is the
\* stack construction gave the source.
C10_CloneCopiesInitial ==
    last.op = "clone" =>
        /\ ~raised
        /\ result.initial = initial
        /\ result.stack = Construct(initial).stack


\* C11: no store operation raises an exception, whatever values are stored.
C11_NeverRaises == ~raised

\* What holds instead: clone() is the only operation that raises, and it
\* does when a stored value is undefined.
C11_OnlyCloneRaises ==
    raised <=> (last.op = "clone"
                   /\ \E i \in 1..Len(stack) :
                         /\ stack[i].value = Undefined
                         /\ stack[i].key # Sym)

\* entries[k]: the property of the entries object that key k names.
EntryOf(obj, k) == MapGet(obj, ToPropertyKey(k)).data.raw

\* C12: the entries getter has a property for exactly the keys with has(k),
\* and it holds the stored raw value of k, not the resolved one.
C12_EntriesRaw ==
    /\ MapKeys(Entries(Cur)) = {ToPropertyKey(k) : k \in {j \in Keys : Has(Cur, j)}}
    /\ \A k \in Keys :
          Has(Cur, k) => EntryOf(Entries(Cur), k) = MapGet(stack, k).value

\* What holds instead: entries is a plain object, so it has one property per
\* property name of the stack's keys (the number 1 and the string "1" name
\* the same property), holding the raw value of the last entry of the stack,
\* in insertion order, with that name.
C12_EntriesByPropertyName ==
    /\ MapKeys(Entries(Cur)) = {ToPropertyKey(k) : k \in MapKeys(stack)}
    /\ \A i \in 1..Len(stack) :
          (\A j \in (i + 1)..Len(stack) :
              ToPropertyKey(stack[j].key) # ToPropertyKey(stack[i].key))
              => EntryOf(Entries(Cur), stack[i].key) = stack[i].value

\* The raw value 0 is in entries although get() resolves it to undefined.
C12_RawNotResolved ==
    /\ last.op = "set"
    /\ last.value = "0"
    /\ EntryOf(Entries(Cur), last.key) = "0"
    /\ Get(Cur, last.key) = Undefined


\* The invocations a construction from init is to make: one per key that
\* declares a callback, in the order Object.entries lists the keys, each
\* with the key's resolved value.
RECURSIVE Notified(_, _)
Notified(es, i) ==
    IF i > Len(es) THEN <<>>
    ELSE (IF Truthy(es[i].data.callback)
          THEN <<[cb |-> es[i].data.callback, arg |-> Resolved(es[i].data)]>>
          ELSE <<>>)
         \o Notified(es, i + 1)

C19_SilentKey ==
    /\ last.op = "construct"
    /\ Len(stack) = 2
    /\ Len(calls) = 1


\* The invocations of exactly the listeners registered under key k in the
\* ledger sig, in registration order, each with the argument arg.
ListenersOf(sig, k, arg) ==
    IF MapHas(sig, k)
    THEN [j \in 1..Len(MapGet(sig, k).set) |->
             [cb |-> MapGet(sig, k).set[j], arg |-> arg]]
    ELSE <<>>

\* C20: dispatch(k) invokes exactly the listeners registered under the key
\* k, with the key identity of the stack, each once, in registration order
\* and with get(k); none registered only under another key, none when k has
\* no listeners; it runs for a key absent from the stack too, and it never
\* changes the stack.
C20_DispatchExact ==
    last.op = "dispatch" =>
        /\ calls = ListenersOf(before.signal, last.key, Get(Cur, last.key))
        /\ stack = before.stack
        /\ signal = before.signal

\* What holds instead: dispatch(k) is exact when no other key of the ledger
\* is loosely equal to k, and it never changes stack or ledger.
C20_ExactButForLooseKeys ==
    last.op = "dispatch" =>
        /\ stack = before.stack
        /\ signal = before.signal
        /\ (\A k \in MapKeys(before.signal) : LooseEq(k, last.key) => k = last.key)
              => calls = ListenersOf(before.signal, last.key, Get(Cur, last.key))

\* dispatch of a key absent from the stack hands its listeners undefined.
C20_AbsentKeyDispatched ==
    /\ last.op = "dispatch"
    /\ ~Has(Cur, last.key)
    /\ Len(calls) > 0
    /\ \A i \in 1..Len(calls) : calls[i].arg = Undefined


---------------------------------------------------------------------------
(* StaticParameter.  Set objects live in a heap, a sequence indexed by     *)
(* reference; an instance is [initial, stack] with stack the reference of  *)
(* its Set.  A member is a primitive or an array [x, x] with an identity   *)
(* of its own.                                                             *)

Prim(v) == [kind |-> "prim", v |-> v]

\* The array [x, x] created as object id.
Pair(id, x) == [kind |-> "pair", id |-> id, fst |-> x, snd |-> x]

\* undefined, where a member is expected.
NoMember == Prim(Undefined)

\* The falsy primitives 0, "" and false.
StaticFalsy == {Prim("0"), Prim(""), Prim("false")}

\* x || undefined
OrUndefined(x) == IF x \in StaticFalsy \/ x = NoMember THEN NoMember ELSE x

\* add() that appends without looking for the value.
StaticAddAppends(h, inst, value) ==
    [h EXCEPT ![inst.stack] = Append(@, value)]

\* this.stack.add(value)
StaticAdd(h, inst, value) == [h EXCEPT ![inst.stack] = SetAdd(@, value)]

\* this.stack.has(key)
StaticHas(h, inst, key) == SeqHas(h[inst.stack], key)

\* this.stack.delete(key)
StaticRemove(h, inst, key) ==
    [h EXCEPT ![inst.stack] = SelectSeq(@, LAMBDA m : m # key)]

\* this.stack.clear()
StaticClear(h, inst) == [h EXCEPT ![inst.stack] = <<>>]

\* for (const value of this.initial) this.add(value)
RECURSIVE StaticInitializeFrom(_, _, _)
StaticInitializeFrom(h, inst, i) ==
    IF i > Len(inst.initial) THEN h
    ELSE StaticInitializeFrom(StaticAdd(h, inst, inst.initial[i]), inst, i + 1)

StaticInitialize(h, inst) == StaticInitializeFrom(h, inst, 1)

\* reset() that replays the initial values without clearing first.
StaticResetKeeps(h, inst) == StaticInitialize(h, inst)

\* this.clear().initialize()
StaticReset(h, inst) == StaticInitialize(StaticClear(h, inst), inst)

\* [...this.stack.values()]
StaticEntries(h, inst) == h[inst.stack]

\* [...this.stack.values()][0] || undefined
StaticValue(h, inst) ==
    IF Len(h[inst.stack]) = 0 THEN NoMember ELSE OrUndefined(h[inst.stack][1])

\* new StaticParameter(init): a new Set, then initialize().  Gives the heap
\* and the instance.
StaticConstruct(h, init) ==
    LET inst == [initial |-> init, stack |-> Len(h) + 1]
    IN  [heap |-> StaticInitialize(Append(h, <<>>), inst), instance |-> inst]

\* clone() handing out the instance itself.
StaticCloneShares(h, inst) == [heap |-> h, instance |-> inst]

\* new this.constructor([...this.initial])
StaticClone(h, inst) == StaticConstruct(h, inst.initial)

\* cloneOriginal() seeding from the members, [...this.stack.values()].
StaticCloneOriginalFlat(h, inst) == StaticConstruct(h, h[inst.stack])

\* new this.constructor([...this.stack.entries()]): entries() of a Set
\* yields a new array [value, value] per member.
StaticCloneOriginal(h, inst) ==
    StaticConstruct(h, [i \in 1..Len(h[inst.stack]) |->
                           Pair(<<Len(h) + 1, i>>, h[inst.stack][i])])

---------------------------------------------------------------------------
(* The state machine of the value sets: one set built from one of the      *)
(* initial sequences, the calls a caller makes on it and on the instances  *)
(* its clone() and cloneOriginal() return.                                 *)

MaxStaticOps == 3

\* The initial sequences a value set is built from.
StaticInitials ==
    {<<>>,
     <<Prim("a")>>,
     <<Prim("a"), Prim("a"), Prim("b")>>,
     <<Prim("0"), Prim("a")>>,
     <<Prim("b"), Prim(""), Prim("a")>>,
     <<Prim("false"), Prim("b"), Prim("false")>>}

\* The values callers pass to add(), has() and remove().
StaticArgs == {Prim("a"), Prim("b"), Prim("0")}

\* No store has been built.
NoStore ==
    /\ initial = <<>>
    /\ stack = <<>>
    /\ signal = <<>>
    /\ calls = <<>>
    /\ last = Call("none", Undefined, Undefined, Undefined, Undefined)
    /\ result = This
    /\ everSet = {}
    /\ listened = {}
    /\ removed = {}
    /\ shadow = EmptyStore
    /\ before = [stack |-> <<>>, signal |-> <<>>]
    /\ raised = FALSE
    /\ ops = 0

\* The heap becomes h after the call c.
StaticBecomes(h, c) ==
    /\ staticOps < MaxStaticOps
    /\ staticOps' = staticOps + 1
    /\ sets' = h
    /\ staticBefore' = sets
    /\ staticPrev' = staticLast
    /\ staticLast' = c
    /\ UNCHANGED <<storeVars, copyVars, nestVars>>

StaticInit ==
    /\ NoStore
    /\ NoCopies
    /\ NoNest
    /\ \E init \in StaticInitials :
          /\ sets = StaticConstruct(<<>>, init).heap
          /\ statics = <<StaticConstruct(<<>>, init).instance>>
    /\ staticLast = StaticCall("construct", 1, "none")
    /\ staticPrev = StaticCall("none", 0, "none")
    /\ staticBefore = <<>>
    /\ staticOps = 0

DoStaticAdd ==
    \E on \in 1..Len(statics), value \in StaticArgs :
        /\ StaticBecomes(StaticAdd(sets, statics[on], value),
                         StaticCall("add", on, value))
        /\ UNCHANGED statics

DoStaticRemove ==
    \E on \in 1..Len(statics), key \in StaticArgs :
        /\ StaticBecomes(StaticRemove(sets, statics[on], key),
                         StaticCall("remove", on, key))
        /\ UNCHANGED statics

DoStaticClear ==
    \E on \in 1..Len(statics) :
        /\ StaticBecomes(StaticClear(sets, statics[on]),
                         StaticCall("clear", on, "none"))
        /\ UNCHANGED statics

DoStaticReset ==
    \E on \in 1..Len(statics) :
        /\ StaticBecomes(StaticReset(sets, statics[on]),
                         StaticCall("reset", on, "none"))
        /\ UNCHANGED statics

DoStaticClone ==
    \E on \in 1..Len(statics) :
        /\ StaticBecomes(StaticClone(sets, statics[on]).heap,
                         StaticCall("clone", on, "none"))
        /\ statics' = Append(statics, StaticClone(sets, statics[on]).instance)

DoStaticCloneOriginal ==
    \E on \in 1..Len(statics) :
        /\ StaticBecomes(StaticCloneOriginal(sets, statics[on]).heap,
                         StaticCall("cloneOriginal", on, "none"))
        /\ statics' = Append(statics,
                             StaticCloneOriginal(sets, statics[on]).instance)

StaticNext ==
    \/ DoStaticAdd
    \/ DoStaticRemove
    \/ DoStaticClear
    \/ DoStaticReset
    \/ DoStaticClone
    \/ DoStaticCloneOriginal

SpecStatic == StaticInit /\ [][StaticNext]_vars

\* Every value set there is, by its index in statics.
Statics == 1..Len(statics)

\* The members the value set at index n holds, in iteration order.
Members(n) == StaticEntries(sets, statics[n])

\* The members it held before the last operation; none if the operation
\* made it.
MembersBefore(n) ==
    IF statics[n].stack \in 1..Len(staticBefore)
    THEN staticBefore[statics[n].stack] ELSE <<>>

\* No value occurs twice in the sequence s.
NoDuplicates(s) == \A i, j \in 1..Len(s) : s[i] = s[j] => i = j

\* The place of the first occurrence of x in the sequence s.
FirstIndex(s, x) ==
    CHOOSE i \in 1..Len(s) : s[i] = x /\ \A j \in 1..(i - 1) : s[j] # x

\* s lists the values of init once each, in the order of their first
\* occurrence in init, and nothing else.
IsDeduplicated(s, init) ==
    /\ NoDuplicates(s)
    /\ {s[i] : i \in 1..Len(s)} = {init[i] : i \in 1..Len(init)}
    /\ \A i, j \in 1..Len(s) :
          i < j => FirstIndex(init, s[i]) < FirstIndex(init, s[j])


\* C14: in every state entries() of a value set has no duplicates and lists
\* the members in insertion order: add(v) of a present value changes neither
\* membership nor order and add(v) of an absent one puts it last, remove(v)
\* takes out v alone, construction from [a, a, b] yields [a, b], and
\* remove(v) followed by add(v) places v last.
C14_UniqueInOrder ==
    /\ \A n \in Statics : NoDuplicates(Members(n))
    /\ staticLast.op = "construct" =>
          IsDeduplicated(Members(1), statics[1].initial)
    /\ staticLast.op = "add" =>
          Members(staticLast.on) =
              (IF SeqHas(MembersBefore(staticLast.on), staticLast.arg)
               THEN MembersBefore(staticLast.on)
               ELSE MembersBefore(staticLast.on) \o <<staticLast.arg>>)
    /\ staticLast.op = "remove" =>
          Members(staticLast.on) =
              SelectSeq(MembersBefore(staticLast.on),
                        LAMBDA m : m # staticLast.arg)
    /\ (/\ staticPrev.op = "remove"
        /\ staticLast.op = "add"
        /\ staticLast.on = staticPrev.on
        /\ staticLast.arg = staticPrev.arg) =>
          /\ Members(staticLast.on) # <<>>
          /\ Members(staticLast.on)[Len(Members(staticLast.on))] = staticLast.arg

\* The set built from [a, a, b] has had its first member a removed and
\* added again: it lists b, then a.
C14_Witness ==
    /\ statics[1].initial = <<Prim("a"), Prim("a"), Prim("b")>>
    /\ staticPrev = StaticCall("remove", 1, Prim("a"))
    /\ staticLast = StaticCall("add", 1, Prim("a"))
    /\ Members(1) = <<Prim("b"), Prim("a")>>

\* add() of a present member leaves the order as it is.
C14_AddPresent ==
    /\ staticLast = StaticCall("add", 1, Prim("a"))
    /\ Members(1) = <<Prim("a"), Prim("b")>>
    /\ MembersBefore(1) = Members(1)


\* C15: after reset(), whatever add/remove/clear came before, entries() is
\* the initial sequence with duplicates collapsed to their first
\* occurrence, in order, and holds no other member.
C15_ResetRestoresInitial ==
    staticLast.op = "reset" =>
        IsDeduplicated(Members(staticLast.on), statics[staticLast.on].initial)

\* reset() finds the set built from [a, a, b] holding other members than
\* these and leaves it holding a, then b.
C15_Witness ==
    /\ staticLast = StaticCall("reset", 1, "none")
    /\ statics[1].initial = <<Prim("a"), Prim("a"), Prim("b")>>
    /\ Prim("0") \in {MembersBefore(1)[i] : i \in 1..Len(MembersBefore(1))}
    /\ ~SeqHas(MembersBefore(1), Prim("a"))
    /\ Members(1) = <<Prim("a"), Prim("b")>>

\* C16: in every state the value accessor gives entries()[0] when the set
\* is not empty, whatever the member, 0, "" and false included, and
\* undefined only when the set is empty.
C16_ValueIsFirst ==
    \A n \in Statics :
        StaticValue(sets, statics[n]) =
            (IF Members(n) = <<>> THEN NoMember ELSE Members(n)[1])

\* What holds instead: value is the first member when that member is
\* truthy, and undefined when the set is empty or its first member falsy.
C16_ValueIsFirstTruthy ==
    \A n \in Statics :
        StaticValue(sets, statics[n]) =
            (IF Members(n) = <<>> \/ Members(n)[1] \in StaticFalsy
             THEN NoMember ELSE Members(n)[1])

C17_CloneWritten ==
    /\ staticPrev = StaticCall("clone", 1, "none")
    /\ staticLast = StaticCall("add", 2, Prim("0"))
    /\ SeqHas(Members(2), Prim("0"))
    /\ ~SeqHas(Members(1), Prim("0"))
    /\ Members(1) = MembersBefore(1)

---------------------------------------------------------------------------
(* A store and the instances its cloneOriginal() returns.  The Map objects *)
(* live in a heap, a sequence indexed by reference; an instance is         *)
(* [initial, stack, signal] with the references of its two Maps.           *)

MaxCopyOps == 3

\* The arguments callers pass.
CopyKeys == {StrA, Num1}

CopyCallbacks == {Undefined, "cb2"}

\* The store the instance inst is, as an operation finds it.
Load(h, inst) ==
    [stack |-> h[inst.stack], signal |-> h[inst.signal], calls |-> <<>>,
     threw |-> FALSE]

\* The Maps of inst after an operation left it as the store st.
Unload(h, inst, st) ==
    [h EXCEPT ![inst.stack] = st.stack, ![inst.signal] = st.signal]

\* The instance a constructor call made, with new Maps of its own.
Allocate(h, new) ==
    [heap |-> h \o <<new.stack, new.signal>>,
     instance |-> [initial |-> new.initial, stack |-> Len(h) + 1,
                   signal |-> Len(h) + 2]]

\* cloneOriginal() handing out the instance itself.
CopyOriginalShares(h, inst) == [heap |-> h, instance |-> inst]

\* new this.constructor({...this.initial})
CopyOriginal(h, inst) ==
    Allocate(h, CloneOriginal(Load(h, inst), inst.initial))

\* The heap becomes h after the call c.
CopyBecomes(h, c) ==
    /\ copyOps < MaxCopyOps
    /\ copyOps' = copyOps + 1
    /\ maps' = h
    /\ copyBefore' = maps
    /\ copyLast' = c
    /\ UNCHANGED <<storeVars, staticVars, nestVars>>

CopyInit ==
    /\ NoStore
    /\ NoStatics
    /\ NoNest
    /\ \E init \in InitialDefs :
          /\ maps = Allocate(<<>>, Construct(init)).heap
          /\ stores = <<Allocate(<<>>, Construct(init)).instance>>
          /\ built = <<Construct(init).stack>>
    /\ copyLast = CopyCall("construct", 1, "none", "none")
    /\ copyBefore = <<>>
    /\ copyOps = 0

DoCopySet ==
    \E on \in 1..Len(stores), key \in CopyKeys, callback \in CopyCallbacks :
        /\ CopyBecomes(Unload(maps, stores[on],
                              Set(Load(maps, stores[on]), key, "dark",
                                  Undefined, callback)),
                       CopyCall("set", on, key, callback))
        /\ UNCHANGED <<stores, built>>

DoCopyRemove ==
    \E on \in 1..Len(stores), key \in CopyKeys :
        /\ CopyBecomes(Unload(maps, stores[on],
                              Remove(Load(maps, stores[on]), key)),
                       CopyCall("remove", on, key, "none"))
        /\ UNCHANGED <<stores, built>>

DoCopyClear ==
    \E on \in 1..Len(stores) :
        /\ CopyBecomes(Unload(maps, stores[on], Clear(Load(maps, stores[on]))),
                       CopyCall("clear", on, "none", "none"))
        /\ UNCHANGED <<stores, built>>

DoCopyListen ==
    \E on \in 1..Len(stores), key \in CopyKeys :
        /\ CopyBecomes(Unload(maps, stores[on],
                              Listen(Load(maps, stores[on]), key, "cb2")),
                       CopyCall("listen", on, key, "cb2"))
        /\ UNCHANGED <<stores, built>>

DoCopyOriginal ==
    \E on \in 1..Len(stores) :
        /\ CopyBecomes(CopyOriginal(maps, stores[on]).heap,
                       CopyCall("cloneOriginal", on, "none", "none"))
        /\ stores' = Append(stores, CopyOriginal(maps, stores[on]).instance)
        /\ built' = Append(built,
                          CopyOriginal(maps, stores[on]).heap[
                              CopyOriginal(maps, stores[on]).instance.stack])

CopyNext ==
    \/ DoCopySet
    \/ DoCopyRemove
    \/ DoCopyClear
    \/ DoCopyListen
    \/ DoCopyOriginal

SpecCopies == CopyInit /\ [][CopyNext]_vars

\* C13: cloneOriginal() returns an independent instance of the original
\* definition: its stack is the stack the source had right after its
\* construction, whatever writes the source has received since, and a later
\* set, remove, clear or listen on one instance changes neither the stack
\* nor the listener ledger of another.
C13_CloneOriginalIndependent ==
    /\ copyLast.op = "cloneOriginal" =>
          /\ maps[stores[Len(stores)].stack] = built[copyLast.on]
          /\ stores[Len(stores)].initial = stores[copyLast.on].initial
    /\ \A n \in 1..Len(stores) :
          (n # copyLast.on \/ copyLast.op = "cloneOriginal")
          /\ stores[n].signal \in 1..Len(copyBefore)
              => /\ maps[stores[n].stack] = copyBefore[stores[n].stack]
                 /\ maps[stores[n].signal] = copyBefore[stores[n].signal]
    /\ \A n, m \in 1..Len(stores) :
          {stores[n].stack, stores[n].signal}
              \cap {stores[m].stack, stores[m].signal} # {} => n = m

\* The source has been written and cleared when cloneOriginal() is called:
\* the copy holds what the source held after construction.
C13_Witness ==
    /\ copyLast = CopyCall("cloneOriginal", 1, "none", "none")
    /\ built[1] # <<>>
    /\ maps[stores[1].stack] = <<>>
    /\ maps[stores[1].signal] # maps[stores[2].signal]
    /\ maps[stores[2].stack] = built[1]

\* A write to the copy, with a callback, leaves the source as it was.
C13_CopyWritten ==
    /\ copyLast = CopyCall("set", 2, StrA, "cb2")
    /\ maps[stores[2].stack] # copyBefore[stores[2].stack]
    /\ maps[stores[2].signal] # copyBefore[stores[2].signal]
    /\ maps[stores[1].stack] = copyBefore[stores[1].stack]
    /\ maps[stores[1].signal] = copyBefore[stores[1].signal]


\* C21: listen(k, cb) invokes no listener and leaves the stack unchanged,
\* and with a callback already registered for k it leaves the ledger
\* unchanged; so every dispatch(k) invokes a callback registered for k by
\* any number of listen(k, cb) calls exactly once, at the position of its
\* first registration among the listeners of k.
C21_ListenIdempotent ==
    /\ last.op = "listen" =>
          /\ calls = <<>>
          /\ stack = before.stack
          /\ (MapHas(before.signal, last.key)
              /\ SeqHas(MapGet(before.signal, last.key).set, last.callback)
                 => signal = before.signal)
    /\ last.op = "dispatch" =>
          \A cb \in Callbacks :
              <<last.key, cb>> \in listened =>
                  /\ Times(calls, cb) = 1
                  /\ \E i \in 1..Len(MapGet(signal, last.key).set) :
                        /\ i <= Len(calls)
                        /\ calls[i].cb = cb
                        /\ MapGet(signal, last.key).set[i] = cb

\* What holds instead: listen is a pure registration that never registers a
\* callback twice under one key, and dispatch(k) invokes a callback once
\* per ledger key == k it is registered under.
C21_ListenPure ==
    /\ last.op = "listen" =>
          /\ calls = <<>>
          /\ stack = before.stack
          /\ (MapHas(before.signal, last.key)
              /\ SeqHas(MapGet(before.signal, last.key).set, last.callback)
                 => signal = before.signal)
    /\ \A i \in 1..Len(signal) :
          \A j, l \in 1..Len(signal[i].set) :
              signal[i].set[j] = signal[i].set[l] => j = l
    /\ last.op = "dispatch" =>
          \A cb \in Callbacks :
              Times(calls, cb) =
                  Cardinality({k \in Keys : LooseEq(k, last.key)
                                               /\ <<k, cb>> \in listened})

\* listen() with a callback the key already has: the ledger stays as it is.
C21_ListenedAgain ==
    /\ last.op = "listen"
    /\ MapHas(before.signal, last.key)
    /\ SeqHas(MapGet(before.signal, last.key).set, last.callback)
    /\ signal = before.signal


\* The listeners of key k in the ledger sig; none when k has no entry.
SetOf(sig, k) == IF MapHas(sig, k) THEN MapGet(sig, k).set ELSE <<>>

\* C22: set(k, v, d, cb) registers cb before it dispatches: cb is invoked
\* during that call with the newly resolved value, exactly once even when
\* it was already registered for k, and after the listeners registered
\* earlier for k; and cb stays registered, so later writes of k invoke it.
C22_CallbackRegisteredFirst ==
    /\ (last.op = "set" /\ Truthy(last.callback)) =>
          /\ SetOf(signal, last.key) =
                 SetAdd(SetOf(before.signal, last.key), last.callback)
          /\ Times(calls, last.callback) = 1
          /\ calls = ListenersOf(signal, last.key, Get(Cur, last.key))
    /\ last.op = "set" =>
          \A cb \in Callbacks :
              <<last.key, cb>> \in listened => Times(calls, cb) >= 1

\* What holds instead: cb is registered under k before the dispatch and is
\* invoked with the newly resolved value, once per ledger key == k it is
\* registered under; the listeners of k are invoked in registration order.
C22_RegisteredBeforeDispatch ==
    (last.op = "set" /\ Truthy(last.callback)) =>
        /\ SetOf(signal, last.key) =
               SetAdd(SetOf(before.signal, last.key), last.callback)
        /\ Times(calls, last.callback) >= 1
        /\ \A i \in 1..Len(calls) : calls[i].arg = Get(Cur, last.key)
        /\ ((\A k \in MapKeys(signal) : LooseEq(k, last.key) => k = last.key)
               => calls = ListenersOf(signal, last.key, Get(Cur, last.key)))

\* set() with a callback new to a key that has a listener already: the
\* earlier listener is invoked first, the callback second, both with the
\* value just written.
C22_InvokedAfterEarlier ==
    /\ last.op = "set"
    /\ last.callback = "cb2"
    /\ SetOf(before.signal, last.key) = <<"cb1">>
    /\ calls = <<[cb |-> "cb1", arg |-> "light"], [cb |-> "cb2", arg |-> "light"]>>


\* C23: remove(k) deletes the record of k alone and leaves the record of
\* every other key, the ledger and the initial definition as they were;
\* clear() empties the stack and leaves the ledger and the initial
\* definition as they were; neither invokes a listener, and remove() of an
\* absent key changes nothing.
C23_RemoveClearLocal ==
    [][/\ last'.op = "remove" =>
             /\ stack' = SelectSeq(stack, LAMBDA e : e.key # last'.key)
             /\ (~MapHas(stack, last'.key) => stack' = stack)
             /\ signal' = signal
             /\ initial' = initial
             /\ calls' = <<>>
       /\ last'.op = "clear" =>
             /\ stack' = <<>>
             /\ signal' = signal
             /\ initial' = initial
             /\ calls' = <<>>]_vars

\* The number 1 is removed from a stack that holds the string "1" too, in a
\* store that has listeners: the string "1" stays.
C23_Witness ==
    /\ last.op = "remove"
    /\ last.key = Num1
    /\ MapHas(before.stack, Num1)
    /\ MapHas(stack, Str1)
    /\ ~MapHas(stack, Num1)
    /\ signal # <<>>
    /\ signal = before.signal
    /\ calls = <<>>

\* clear() empties a stack of two records and keeps the ledger.
C23_Cleared ==
    /\ last.op = "clear"
    /\ Len(before.stack) = 2
    /\ stack = <<>>
    /\ signal # <<>>
    /\ signal = before.signal


\* The invocations a replay of the entries es, from the i-th on, is to make
\* with the ledger sig: for each key in turn, the listeners registered
\* under that key, each with the resolved value of the key's definition.
RECURSIVE Renotified(_, _, _)
Renotified(es, sig, i) ==
    IF i > Len(es) THEN <<>>
    ELSE ListenersOf(sig, es[i].key, Resolved(es[i].data))
         \o Renotified(es, sig, i + 1)

\* C24: reset() invokes, for each key of the initial definition in the
\* definition's key order, every listener registered for that key, declared
\* or added later, exactly once with the key's resolved initial value; a
\* listener registered only for keys outside the definition is not invoked.
C24_ResetRenotifies ==
    last.op = "reset" =>
        /\ calls = Renotified(ObjectEntries(initial), signal, 1)
        /\ \A cb \in Callbacks :
              (\A k \in InitialKeys : <<k, cb>> \notin listened)
                  => Times(calls, cb) = 0

\* What holds instead: for each key of the initial definition in turn, the
\* listeners of every ledger key == that key are invoked, each with the
\* resolved initial value; with no ledger key loosely equal to another key
\* of the definition, these are the listeners of the definition's keys.
C24_RenotifiesLooseKeys ==
    last.op = "reset" =>
        /\ signal = before.signal
        /\ \A cb \in Callbacks :
              Times(calls, cb) =
                  Cardinality({kk \in InitialKeys \X Keys :
                                  /\ LooseEq(kk[1], kk[2])
                                  /\ <<kk[2], cb>> \in listened})
        /\ ((\A k \in MapKeys(signal), j \in InitialKeys :
                LooseEq(k, j) => k = j)
               => calls = Renotified(ObjectEntries(initial), signal, 1))

\* reset() of a store whose two keys have a listener each, one declared and
\* one added by listen(): both are invoked, the integer-like key first.
C24_BothRenotified ==
    /\ last.op = "reset"
    /\ Len(ObjectEntries(initial)) = 2
    /\ Declared(initial) # listened
    /\ Len(calls) = 2
    /\ calls[1].cb # calls[2].cb
    /\ calls = Renotified(ObjectEntries(initial), signal, 1)


\* C25: in every state, every key that was ever passed to set() is in the
\* stack, with a record whose defaultValue is not empty (not falsy).
C25_SetKeysStay ==
    \A k \in everSet :
        /\ MapHas(stack, k)
        /\ Truthy(MapGet(stack, k).defaultValue)

\* C25, amended: a key passed to set() is in the stack when set() returns,
\* with the explicit default when that is truthy and the written value
\* otherwise as its defaultValue, and it stays in the stack until a
\* remove(), clear() or reset() takes it out; in every state the
\* defaultValue of a record is truthy or is the record's value, so it is
\* empty only when the written value is empty too.
C25_DefaultFallsBack ==
    /\ [](\A i \in 1..Len(stack) :
             \/ Truthy(stack[i].defaultValue)
             \/ stack[i].defaultValue = stack[i].value)
    /\ [][/\ last'.op = "set" =>
                /\ MapHas(stack', last'.key)
                /\ MapGet(stack', last'.key).defaultValue =
                       Or(last'.defaultValue, last'.value)
          /\ last'.op \notin {"remove", "clear", "reset"} =>
                \A k \in MapKeys(stack) : MapHas(stack', k)
          /\ last'.op = "remove" =>
                \A k \in MapKeys(stack) \ {last'.key} : MapHas(stack', k)]_vars

\* A key passed to set() with the value 0 and no default is in the stack
\* with the empty defaultValue 0.
C25_Witness ==
    /\ last.op = "set"
    /\ last.value = "0"
    /\ last.defaultValue = Undefined
    /\ MapGet(stack, last.key).defaultValue = "0"

\* A key passed to set() has been removed.
C25_SetKeyRemoved ==
    /\ last.op = "remove"
    /\ last.key \in everSet
    /\ MapHas(before.stack, last.key)
    /\ ~MapHas(stack, last.key)



---------------------------------------------------------------------------
(* A store whose listeners call back into it.  An operation runs step by   *)
(* step on a call stack of frames: an initialize frame is the loop of      *)
(* initialize() over the entries of initial, a dispatch frame the two      *)
(* loops of dispatch() over the ledger entries and the listeners of one.   *)
(* A listener runs to its end, nested calls included, before the loop that *)
(* invoked it goes on.                                                     *)

MaxNestOps == 3

\* The deepest nesting of dispatch() calls followed.
MaxDepth == 3

\* The arguments callers pass.
NestKeys == {StrA, Str1}

\* L2 only looks; L1 writes "dark" to theme once, when handed "light";
\* loop writes theme whenever invoked; again dispatches theme whenever
\* invoked.
NestCallbacks == {"L1", "L2", "loop", "again"}

\* The call the listener cb makes on the store when invoked with arg.
Reacts(cb, arg) ==
    CASE cb = "L1" /\ arg = "light" -> NestCall("set", StrA, "dark", Undefined)
      [] cb = "loop" -> NestCall("set", StrA, "dark", Undefined)
      [] cb = "again" -> NestCall("dispatch", StrA, Undefined, Undefined)
      [] OTHER -> NestCall("none", Undefined, Undefined, Undefined)

\* The initial definitions the store is built from, as written.
NestInitials ==
    {<<>>,
     <<Prop(StrA, Param("light", Undefined, "L2"))>>,
     <<Prop(StrA, Param("light", Undefined, "L1")),
       Prop(Str1, Param("light", Undefined, "L2"))>>,
     <<Prop(Str1, Param("0", "dark", "L2")),
       Prop(StrA, Param("light", Undefined, Undefined))>>,
     <<Prop(Str1, Param("light", Undefined, "L1")),
       Prop(StrA, Param("light", Undefined, Undefined))>>,
     <<Prop(StrA, Param("light", Undefined, "loop"))>>}

\* The store as a step finds it.
NestCur ==
    [stack |-> nestStack, signal |-> nestSignal, calls |-> <<>>,
     threw |-> FALSE]

\* set() up to its dispatch: the record is written and the callback, if
\* any, registered.
Write(st, key, value, defaultValue, callback) ==
    LET written == [st EXCEPT !.stack =
                       MapSet(st.stack, key,
                              [key |-> key, value |-> value,
                               defaultValue |-> Or(defaultValue, value),
                               callback |-> callback])]
    IN  IF Truthy(callback) THEN Listen(written, key, callback) ELSE written

\* The frame of initialize() over the entries es.
Initializing(es) == [op |-> "initialize", es |-> es, i |-> 1]

\* The frame of dispatch(key) called on the store st: its copy of the
\* ledger's entries, its place in them and in the listeners of one.  For
\* the record, what get(key) was at the call and which entry of the
\* initial definition initialize() was at, 0 if not called from it.
Dispatching(st, key, index) ==
    [op |-> "dispatch", key |-> key,
     entries |-> [n \in 1..Len(st.signal) |-> st.signal[n].key],
     i |-> 1, j |-> 1, trigger |-> Get(st, key), index |-> index]

\* dispatch() handing every listener what get(key) was when it was called.
HandedTrigger(st, f) == f.trigger

\* What the dispatch of frame f hands the listener it invokes now:
\* this.get(key), read at the invocation.
Handed(st, f) == Get(st, f.key)

\* A call that is refused while a dispatch of the same key is under way.
EnterGuarded(fs, f) ==
    IF \E n \in 1..Len(fs) : fs[n].op = "dispatch" /\ fs[n].key = f.key
    THEN fs ELSE Append(fs, f)

\* The call stack with the frame f entered.
Enter(fs, f) == Append(fs, f)

Idle == nestFrames = <<>>

Top == nestFrames[Len(nestFrames)]

\* The call stack with its top frame replaced by f.
Onward(f) == [nestFrames EXCEPT ![Len(nestFrames)] = f]

\* The call stack without its top frame.
Returned == SubSeq(nestFrames, 1, Len(nestFrames) - 1)

\* How deep the dispatch() calls are nested.
Depth == Cardinality({n \in 1..Len(nestFrames) : nestFrames[n].op = "dispatch"})

\* A caller starts the operation c: the store becomes st and the call
\* stack fs.
Started(st, fs, c) ==
    /\ Idle
    /\ nestOps < MaxNestOps
    /\ nestOps' = nestOps + 1
    /\ nestLast' = c
    /\ nestCalls' = <<>>
    /\ nestStack' = st.stack
    /\ nestSignal' = st.signal
    /\ nestFrames' = fs
    /\ UNCHANGED <<nestInitial, storeVars, staticVars, copyVars>>

\* A step of the operation under way: the store becomes st and the call
\* stack fs, after the listener invocations cs.
Stepped(st, fs, cs) ==
    /\ nestStack' = st.stack
    /\ nestSignal' = st.signal
    /\ nestFrames' = fs
    /\ nestCalls' = nestCalls \o cs
    /\ UNCHANGED <<nestInitial, nestLast, nestOps, storeVars, staticVars,
                   copyVars>>

NestInit ==
    /\ NoStore
    /\ NoStatics
    /\ NoCopies
    /\ nestInitial \in NestInitials
    /\ nestStack = <<>>
    /\ nestSignal = <<>>
    /\ nestFrames = <<Initializing(ObjectEntries(nestInitial))>>
    /\ nestCalls = <<>>
    /\ nestLast = NestCall("construct", Undefined, Undefined, Undefined)
    /\ nestOps = 0

NestSet ==
    \E key \in NestKeys, callback \in {Undefined, "L2"} :
        Started(Write(NestCur, key, "light", Undefined, callback),
                Enter(<<>>, Dispatching(Write(NestCur, key, "light", Undefined,
                                              callback), key, 0)),
                NestCall("set", key, "light", callback))

NestUpdate ==
    \E key \in NestKeys :
        IF Has(NestCur, key)
        THEN Started(Write(NestCur, key, "light", Undefined, Undefined),
                     Enter(<<>>, Dispatching(Write(NestCur, key, "light",
                                                   Undefined, Undefined),
                                             key, 0)),
                     NestCall("update", key, "light", Undefined))
        ELSE Started(NestCur, <<>>, NestCall("update", key, "light", Undefined))

NestDispatch ==
    \E key \in NestKeys :
        Started(NestCur, Enter(<<>>, Dispatching(NestCur, key, 0)),
                NestCall("dispatch", key, Undefined, Undefined))

NestReset ==
    Started(Clear(NestCur), <<Initializing(ObjectEntries(nestInitial))>>,
            NestCall("reset", Undefined, Undefined, Undefined))

NestListen ==
    \E key \in NestKeys, callback \in NestCallbacks :
        Started(Listen(NestCur, key, callback), <<>>,
                NestCall("listen", key, Undefined, callback))

\* initialize() calls set() for its next entry, which writes and dispatches.
InitializeNext ==
    /\ ~Idle
    /\ Top.op = "initialize"
    /\ Top.i <= Len(Top.es)
    /\ LET e == Top.es[Top.i]
           st == Write(NestCur, e.key, Field(e.data, "value"),
                       Field(e.data, "defaultValue"), Field(e.data, "callback"))
       IN  Stepped(st,
                   Enter(Onward([Top EXCEPT !.i = Top.i + 1]),
                         Dispatching(st, e.key, Top.i)),
                   <<>>)

InitializeReturn ==
    /\ ~Idle
    /\ Top.op = "initialize"
    /\ Top.i > Len(Top.es)
    /\ Stepped(NestCur, Returned, <<>>)

\* dispatch() passes an entry whose key is not == key, or is through with
\* the listeners of one that is.
DispatchSkip ==
    /\ ~Idle
    /\ Top.op = "dispatch"
    /\ Top.i <= Len(Top.entries)
    /\ \/ ~LooseEq(Top.key, Top.entries[Top.i])
       \/ Top.j > Len(SetOf(nestSignal, Top.entries[Top.i]))
    /\ Stepped(NestCur, Onward([Top EXCEPT !.i = Top.i + 1, !.j = 1]), <<>>)

\* dispatch() invokes its next listener with get(key), and the listener
\* makes its call, if any.
DispatchInvoke ==
    /\ ~Idle
    /\ Top.op = "dispatch"
    /\ Top.i <= Len(Top.entries)
    /\ LooseEq(Top.key, Top.entries[Top.i])
    /\ Top.j <= Len(SetOf(nestSignal, Top.entries[Top.i]))
    /\ LET callable == SetOf(nestSignal, Top.entries[Top.i])[Top.j]
           arg == Handed(NestCur, Top)
           does == Reacts(callable, arg)
           onward == Onward([Top EXCEPT !.j = Top.j + 1])
           heeded == <<[cb |-> callable, arg |-> arg, key |-> Top.key,
                        trigger |-> Top.trigger, index |-> Top.index,
                        seen |-> MapKeys(nestStack), depth |-> Depth]>>
           wrote == Write(NestCur, does.key, does.value, Undefined, Undefined)
       IN  CASE does.op = "none" -> Stepped(NestCur, onward, heeded)
             [] does.op = "set" ->
                   /\ Depth < MaxDepth
                   /\ Stepped(wrote,
                              Enter(onward, Dispatching(wrote, does.key, 0)),
                              heeded)
             [] does.op = "dispatch" ->
                   /\ Depth < MaxDepth
                   /\ Stepped(NestCur,
                              Enter(onward, Dispatching(NestCur, does.key, 0)),
                              heeded)

DispatchReturn ==
    /\ ~Idle
    /\ Top.op = "dispatch"
    /\ Top.i > Len(Top.entries)
    /\ Stepped(NestCur, Returned, <<>>)

\* The steps of the operation under way.
NestRun ==
    \/ InitializeNext
    \/ InitializeReturn
    \/ DispatchSkip
    \/ DispatchInvoke
    \/ DispatchReturn

NestNext ==
    \/ NestSet
    \/ NestUpdate
    \/ NestDispatch
    \/ NestReset
    \/ NestListen
    \/ NestRun

SpecNested == NestInit /\ [][NestNext]_vars

\* The operation under way is never left unfinished while it can go on.
SpecNestedFair == SpecNested /\ WF_vars(NestRun)


\* The listener cb never calls back into the store.
Inert(cb) == \A arg \in Values : Reacts(cb, arg).op = "none"

\* The listener cb calls set(k, ..) or dispatch(k) whenever it is invoked.
Unconditional(cb, k) ==
    \A arg \in Values :
        Reacts(cb, arg).op \in {"set", "dispatch"} /\ Reacts(cb, arg).key = k

\* No listener that calls back is registered or declared.
Calm ==
    /\ \A n \in 1..Len(nestSignal) :
          \A j \in 1..Len(nestSignal[n].set) : Inert(nestSignal[n].set[j])
    /\ \A d \in Declared(nestInitial) : Inert(d[2])

\* A listener registered for k calls set(k, ..) or dispatch(k) whenever it
\* is invoked.
Looping(k) ==
    \E j \in 1..Len(SetOf(nestSignal, k)) :
        Unconditional(SetOf(nestSignal, k)[j], k)

\* C26: when no listener calls back into the store, every operation
\* completes; there is no reentrancy guard, so when a listener registered
\* for k calls set(k, ..) or dispatch(k) whenever invoked, any set, update
\* or dispatch of k never completes and the nesting of dispatches grows
\* without bound.
C26_NeverCompletes ==
    /\ (~Idle /\ Calm) ~> Idle
    /\ [](nestLast.op \in {"set", "update", "dispatch"}
          /\ Looping(nestLast.key) => ~Idle)
    /\ (nestLast.op \in {"set", "update", "dispatch"} /\ Looping(nestLast.key))
          ~> (Depth = MaxDepth)

\* The set, update or dispatch of k the caller started last is one that
\* dispatches k: update() does only for a key that is in the stack.
Dispatches ==
    \/ nestLast.op \in {"set", "dispatch"}
    \/ nestLast.op = "update" /\ Has(NestCur, nestLast.key)

\* C26, amended: as above, for any set or dispatch of k and for any update
\* of a k that is in the stack; update of a k that is not in the stack
\* completes at once, without a dispatch.
C26_Termination ==
    /\ (~Idle /\ Calm) ~> Idle
    /\ [](Dispatches /\ Looping(nestLast.key) => ~Idle)
    /\ (Dispatches /\ Looping(nestLast.key)) ~> (Depth = MaxDepth)
    /\ [](nestLast.op = "update" /\ ~Has(NestCur, nestLast.key) =>
              Idle /\ nestCalls = <<>>)

\* A set() of a key that has a listener writing that key is nested as deep
\* as dispatches are followed, and not finished.
C26_Witness ==
    /\ nestLast.op = "set"
    /\ Looping(nestLast.key)
    /\ Depth = MaxDepth
    /\ ~Idle
    /\ Len(nestCalls) >= MaxDepth - 1

\* update() of a key that has such a listener but is not in the stack has
\* completed.
C26_UpdateOfAbsentKey ==
    /\ nestLast.op = "update"
    /\ Looping(nestLast.key)
    /\ ~Has(NestCur, nestLast.key)
    /\ Idle

\* An operation that invoked listeners has completed in a store where no
\* listener calls back.
C26_CalmCompleted ==
    /\ Calm
    /\ Idle
    /\ Len(nestCalls) >= 2


\* The listener invocations of the operation under way, as callback,
\* argument and nesting depth of the dispatch that made them.
Heeded ==
    [n \in 1..Len(nestCalls) |->
        <<nestCalls[n].cb, nestCalls[n].arg, nestCalls[n].depth>>]

\* C27: listeners see the value current when they are invoked, not the one
\* that triggered the dispatch.  With L1 then L2 registered for theme, L1
\* calling set(theme, "dark") once, when handed "light": during
\* set(theme, "light") L1 is handed "light", its nested dispatch hands
\* "dark" to L1 and to L2, the outer dispatch then hands "dark" to L2; L2 is
\* never handed "light", and get(theme) is "dark" when the outer set
\* returns.
C27_ValueAtInvocation ==
    (/\ nestLast.op = "set"
     /\ nestLast.key = StrA
     /\ nestLast.value = "light"
     /\ SetOf(nestSignal, StrA) = <<"L1", "L2">>) =>
        /\ \A n \in 1..Len(nestCalls) :
              nestCalls[n].cb = "L2" => nestCalls[n].arg = "dark"
        /\ Idle =>
              /\ Heeded = << <<"L1", "light", 1>>, <<"L1", "dark", 2>>,
                             <<"L2", "dark", 2>>, <<"L2", "dark", 1>> >>
              /\ nestCalls[4].trigger = "light"
              /\ Get(NestCur, StrA) = "dark"

\* The outer set(theme, "light") has returned after the four invocations.
C27_Witness ==
    /\ nestLast = NestCall("set", StrA, "light", Undefined)
    /\ SetOf(nestSignal, StrA) = <<"L1", "L2">>
    /\ Idle
    /\ Len(nestCalls) = 4
    /\ nestCalls[4].cb = "L2"
    /\ nestCalls[4].arg = "dark"
    /\ nestCalls[4].depth = 1


\* The keys of the first i entries Object.entries lists of the initial
\* definition of the store whose listeners call back.
Rebuilt(i) == {ObjectEntries(nestInitial)[n].key : n \in 1..i}

\* The invocation nestCalls[n] was made by initialize() for an entry of the
\* initial definition.
ByInitialize(n) ==
    /\ nestLast.op \in {"construct", "reset"}
    /\ nestCalls[n].index > 0

\* C28: a listener invoked by construction or reset() for the i-th key of
\* the initial definition observes a stack that holds the keys 1..i of the
\* definition and no other key: no later key of the definition and no key
\* that a set() before the reset had added.
C28_PartialStack ==
    \A n \in 1..Len(nestCalls) :
        ByInitialize(n) => nestCalls[n].seen = Rebuilt(nestCalls[n].index)

\* C28, amended: the same, as long as no listener invoked earlier during
\* that construction or reset has written to the store.
C28_PartialUntilWritten ==
    \A n \in 1..Len(nestCalls) :
        (/\ ByInitialize(n)
         /\ \A m \in 1..(n - 1) :
               Reacts(nestCalls[m].cb, nestCalls[m].arg).op # "set")
            => nestCalls[n].seen = Rebuilt(nestCalls[n].index)

\* reset() of a store of two keys invokes the listener of the first while
\* the second is not in the stack, after a set() by the caller.
C28_Witness ==
    /\ nestLast.op = "reset"
    /\ nestOps >= 2
    /\ Len(ObjectEntries(nestInitial)) = 2
    /\ Len(nestCalls) >= 1
    /\ nestCalls[1].index = 1
    /\ nestCalls[1].seen = {Str1}
    /\ Reacts(nestCalls[1].cb, nestCalls[1].arg).op = "none"

\* reset() of a store built with the key theme alone, to which a listener
\* had been added under the key "1": the listener of theme does not see "1".
C28_AddedKeyAbsent ==
    /\ nestLast.op = "reset"
    /\ MapKeys(ObjectEntries(nestInitial)) = {StrA}
    /\ MapHas(nestSignal, Str1)
    /\ Len(nestCalls) = 1
    /\ nestCalls[1].seen = {StrA}

\* A listener of the first key is invoked after another has written the
\* second key: it sees both.
C28_SeenAfterWrite ==
    /\ nestLast.op = "reset"
    /\ \E n \in 1..Len(nestCalls) :
          /\ nestCalls[n].index = 1
          /\ nestCalls[n].cb = "L2"
          /\ nestCalls[n].seen = {Str1, StrA}

====
